---- MODULE Spec2Model ----
(***************************************************************************)
(* A model of zync.py, the Python 2 client of the Zync render service:     *)
(* the HTTP backend with its session cookie (HTTPBackend), the preflight   *)
(* check engine (Job.preflight) and the job submission path               *)
(* (Zync.submit_job, Job.submit and the per-application subclasses).       *)
(*                                                                         *)
(* Python values are records [t |-> type name, v |-> characters]; a dict   *)
(* is a function whose domain is its set of keys; a text is a sequence of  *)
(* characters or of longer fragments.                                      *)
(***************************************************************************)
EXTENDS Integers, Sequences, FiniteSets, TLC

VARIABLES
  cookie,   \* HTTPBackend.cookie of every client
  dflt,     \* the one dict object that is the default of request()'s headers
  job,      \* the fields of the Job object made last
  wire,     \* the HTTP requests the last call put on the wire, in order
  res,      \* the last call and how it ended (returned, or the exception raised)
  pf,       \* the last preflight run: what it was given and what it did
  sub       \* the last submission: what the caller passed

vars == <<cookie, dflt, job, wire, res, pf, sub>>

-----------------------------------------------------------------------------
(* Bounds of the model *)

\* the longest list of checks the service sends for one job type
MaxRules == 2

-----------------------------------------------------------------------------
(* Python values *)

U(s) == [t |-> "unicode", v |-> s]
I(s) == [t |-> "int", v |-> s]
S(s) == [t |-> "str", v |-> s]

\* a character outside ASCII (U+00E9)
Eacute == "U+00E9"
NonAscii == {Eacute}

\* the empty dict
EmptyDict == [k \in {} |-> S(<<>>)]

\* d.update(e): the keys of both, e's value where both have the key
Update(d, e) ==
  [k \in (DOMAIN d) \cup (DOMAIN e) |-> IF k \in DOMAIN e THEN e[k] ELSE d[k]]

\* a == b on scalars: a byte string and a unicode string of the same
\* characters are equal, a number never equals a string
PyEq(a, b) ==
  /\ a.v = b.v
  /\ (a.t \in {"str", "unicode"}) = (b.t \in {"str", "unicode"})
  /\ (a.t \in {"str", "unicode"}) \/ a.t = b.t

\* item in condition, condition a list
PyIn(item, condition) == \E i \in DOMAIN condition : PyEq(item, condition[i])

\* str(x) raises UnicodeEncodeError on a unicode object with a character
\* outside ASCII: Python 2 encodes it with the ascii codec. (The module is
\* Python 2: line 13 imports urlencode from urllib. json.loads and the host
\* applications give unicode objects for text.)
StrRaises(x) == x.t = "unicode" /\ \E i \in DOMAIN x.v : x.v[i] \in NonAscii

\* str(x) where it does not raise: a byte string of the same characters
Str(x) == S(x.v)

\* sep.join(strs), strs a list of byte strings, as one text
RECURSIVE Join(_, _)
Join(sep, strs) ==
  IF strs = <<>> THEN <<>>
  ELSE IF Len(strs) = 1 THEN Head(strs).v
  ELSE Head(strs).v \o sep \o Join(sep, Tail(strs))

\* the placeholder of an error text
MatchToken == "%match%"

\* text.replace('%match%', new): every occurrence, left to right
RECURSIVE Replace(_, _)
Replace(text, new) ==
  IF text = <<>> THEN <<>>
  ELSE (IF Head(text) = MatchToken THEN new ELSE <<Head(text)>>)
         \o Replace(Tail(text), new)

-----------------------------------------------------------------------------
(* The scene: what eval() of a check's api_call gives in the host application *)

ApiCalls == {"num", "two", "boom", "uni"}

\* eval(api_call): it raises an Exception, or returns a scalar, a list or a
\* tuple
Eval(api_call) ==
  CASE api_call = "num"  -> [raised |-> FALSE, type |-> "int",
                             items |-> <<I(<<"7">>)>>]
    [] api_call = "two"  -> [raised |-> FALSE, type |-> "list",
                             items |-> <<U(<<"y">>), U(<<"x">>)>>]
    [] api_call = "uni"  -> [raised |-> FALSE, type |-> "tuple",
                             items |-> <<U(<<"x">>), U(<<Eacute>>)>>]
    [] OTHER             -> [raised |-> TRUE, type |-> "none", items |-> <<>>]

\* lines 431-432: anything but a list or a tuple becomes a one-element list
AsList(api_result) ==
  IF api_result.type # "list" /\ api_result.type # "tuple"
  THEN <<api_result.items[1]>>
  ELSE api_result.items

-----------------------------------------------------------------------------
(* The checks the service can send *)

OperationTypes == {"equal", "not_equal", "regex"}

Conditions ==
  { <<U(<<"x">>)>>,
    <<U(<<Eacute>>), U(<<"y">>), U(<<"x">>), I(<<"7">>)>> }

Errors ==
  { <<"found ", MatchToken>>,
    <<MatchToken, " is set: unset ", MatchToken>> }

Rules ==
  [api_call : ApiCalls, operation_type : OperationTypes,
   condition : Conditions, error : Errors]

RECURSIVE SeqsUpTo(_, _)
SeqsUpTo(set, n) ==
  IF n = 0 THEN {<<>>}
  ELSE LET shorter == SeqsUpTo(set, n - 1)
       IN  shorter \cup {Append(s, x) : s \in {t \in shorter : Len(t) = n - 1},
                                        x \in set}

RuleLists == SeqsUpTo(Rules, MaxRules)

-----------------------------------------------------------------------------
(* Job.preflight, lines 407-448 *)

\* Meets with line 440 an else: whatever is not "equal" is taken as "not_equal"
MeetsElse(preflight_obj, result_item) ==
  \/ /\ preflight_obj.operation_type = "equal"
     /\ PyIn(result_item, preflight_obj.condition)
  \/ /\ preflight_obj.operation_type # "equal"
     /\ ~PyIn(result_item, preflight_obj.condition)

\* does the item meet the check (lines 438 and 440)
Meets(preflight_obj, result_item) ==
  \/ /\ preflight_obj.operation_type = "equal"
     /\ PyIn(result_item, preflight_obj.condition)
  \/ /\ preflight_obj.operation_type = "not_equal"
     /\ ~PyIn(result_item, preflight_obj.condition)

\* lines 437-441: the loop over the result, which an exception of str() leaves
RECURSIVE MatchLoop(_, _, _)
MatchLoop(preflight_obj, items, matches) ==
  IF items = <<>> THEN [raised |-> FALSE, matches |-> matches]
  ELSE IF Meets(preflight_obj, Head(items))
       THEN IF StrRaises(Head(items))
            THEN [raised |-> TRUE, matches |-> matches]
            ELSE MatchLoop(preflight_obj, Tail(items),
                           Append(matches, Str(Head(items))))
       ELSE MatchLoop(preflight_obj, Tail(items), matches)

\* CheckOne with the except branch failing closed: a check that cannot be
\* evaluated counts as met
CheckOneFailClosed(preflight_obj) ==
  LET api_result == Eval(preflight_obj.api_call)
  IN  IF api_result.raised
      THEN [raised |-> FALSE, matches |-> <<S(<<"error">>)>>]
      ELSE MatchLoop(preflight_obj, AsList(api_result), <<>>)

\* lines 422-443: one check; raised is the except branch (continue)
CheckOne(preflight_obj) ==
  LET api_result == Eval(preflight_obj.api_call)
  IN  IF api_result.raised THEN [raised |-> TRUE, matches |-> <<>>]
      ELSE MatchLoop(preflight_obj, AsList(api_result), <<>>)

\* line 448: the text of the ZyncPreflightError
ErrorText(preflight_obj, matches) ==
  Replace(preflight_obj.error, Join(<<", ">>, matches))

\* CheckLoop with line 447 testing len(matches) >= 0
RECURSIVE CheckLoopAnyLength(_, _, _)
CheckLoopAnyLength(preflight_list, i, evaluated) ==
  IF i > Len(preflight_list)
  THEN [outcome |-> "Pass", msg |-> <<>>, evaluated |-> evaluated]
  ELSE LET one == CheckOne(preflight_list[i])
       IN  IF ~one.raised /\ Len(one.matches) >= 0
           THEN [outcome |-> "ZyncPreflightError",
                 msg |-> ErrorText(preflight_list[i], one.matches),
                 evaluated |-> Append(evaluated, i)]
           ELSE CheckLoopAnyLength(preflight_list, i + 1, Append(evaluated, i))

\* lines 421-448: the loop over the checks from the i-th on; evaluated lists
\* the checks whose api_call was handed to eval(), in order
RECURSIVE CheckLoop(_, _, _)
CheckLoop(preflight_list, i, evaluated) ==
  IF i > Len(preflight_list)
  THEN [outcome |-> "Pass", msg |-> <<>>, evaluated |-> evaluated]
  ELSE LET one == CheckOne(preflight_list[i])
       IN  IF ~one.raised /\ Len(one.matches) > 0
           THEN [outcome |-> "ZyncPreflightError",
                 msg |-> ErrorText(preflight_list[i], one.matches),
                 evaluated |-> Append(evaluated, i)]
           ELSE CheckLoop(preflight_list, i + 1, Append(evaluated, i))

\* lines 407-448: with checks to run, a maya or nuke job whose application
\* module cannot be imported returns at once
RunChecks(job_type, preflight_list, importOK) ==
  IF Len(preflight_list) > 0 /\ job_type \in {"maya", "nuke"} /\ ~importOK
  THEN [outcome |-> "Pass", msg |-> <<>>, evaluated |-> <<>>]
  ELSE CheckLoop(preflight_list, 1, <<>>)

-----------------------------------------------------------------------------
(* HTTPBackend *)

Clients == {"z1", "z2"}

\* what __auth can return as response['set-cookie']; the empty one is false
Cookies == {"", "sid=A", "sid=B"}

NoHeaders == [k \in {} |-> ""]

FormType == "application/x-www-form-urlencoded"

\* one request handed to httplib2: via names the method that made it, query
\* is what went into the URL, body what went into the form
Sent(via, url, operation, query, body, headers) ==
  [via |-> via, url |-> url, op |-> operation, query |-> query,
   body |-> body, headers |-> headers]

\* set_cookie keeping a Cookie the dict already has (headers.setdefault)
SetCookieKeep(ck, headers) ==
  IF ck # ""
  THEN [raised |-> FALSE, headers |-> Update([k \in {"Cookie"} |-> ck], headers)]
  ELSE [raised |-> TRUE, headers |-> headers]

\* set_cookie, lines 79-83: the dict it is given is changed in place
SetCookie(ck, headers) ==
  IF ck # ""
  THEN [raised |-> FALSE, headers |-> Update(headers, [k \in {"Cookie"} |-> ck])]
  ELSE [raised |-> TRUE, headers |-> headers]

\* request, lines 116-132: status is the status of the response. The result
\* names the dict headers as the call leaves it and what was sent
Request(ck, headers, url, operation, data, status) ==
  LET sc == SetCookie(ck, headers)
      typed == IF "Content-Type" \notin DOMAIN sc.headers
               THEN Update(sc.headers, [k \in {"Content-Type"} |-> FormType])
               ELSE sc.headers
  IN  IF sc.raised
      THEN [outcome |-> "ZyncAuthenticationError", headers |-> sc.headers,
            sent |-> <<>>]
      ELSE IF operation = "GET"
      THEN [outcome |-> IF status = "200" THEN "ok" ELSE "ZyncError",
            headers |-> sc.headers,
            sent |-> <<Sent("request", url, operation,
                            IF Cardinality(DOMAIN data) > 0 THEN data
                            ELSE EmptyDict,
                            EmptyDict, sc.headers)>>]
      ELSE [outcome |-> IF status = "200" THEN "ok" ELSE "ZyncError",
            headers |-> typed,
            sent |-> <<Sent("request", url, operation, EmptyDict, data, typed)>>]

Statuses == {"200", "500"}

-----------------------------------------------------------------------------
(* Job *)

None == [t |-> "NoneType", v |-> <<"None">>]

NoJob ==
  [zync |-> "none", family |-> "none", job_type |-> "none", id |-> None,
   job_id |-> None]

\* the job_type a class of jobs sets: a plain Job leaves it None
JobType(family) == IF family = "job" THEN "None" ELSE family

\* Job.__init__ and the subclasses' __init__, lines 309-316, 491-496
NewJob(zync, family) ==
  [zync |-> zync, family |-> family, job_type |-> JobType(family), id |-> None,
   job_id |-> None]

NoPreflight ==
  [job_type |-> "none", rules |-> <<>>, importOK |-> TRUE, done |-> FALSE,
   outcome |-> "none", msg |-> <<>>, evaluated |-> <<>>]

NoSubmit ==
  [done |-> FALSE, family |-> "none", file |-> None, write_name |-> None,
   params |-> EmptyDict, outcome |-> "none"]

\* get_preflight_checks and preflight, lines 379-448, on the job j: the
\* service answers the GET with status and, when 200, the list rules
Preflight(j, ck, headers, status, rules, importOK) ==
  LET got == Request(ck, headers, <<"api", "preflight", j.job_type>>, "GET",
                     EmptyDict, status)
      ran == RunChecks(j.job_type, rules, importOK)
  IN  IF j.job_type = "None"
      THEN [outcome |-> "ZyncError", headers |-> headers, sent |-> <<>>,
            msg |-> <<>>, evaluated |-> <<>>]
      ELSE IF got.outcome # "ok"
      THEN [outcome |-> got.outcome, headers |-> got.headers, sent |-> got.sent,
            msg |-> <<>>, evaluated |-> <<>>]
      ELSE [outcome |-> ran.outcome, headers |-> got.headers, sent |-> got.sent,
            msg |-> ran.msg, evaluated |-> ran.evaluated]

\* job.preflight() called on the job made last
JobPreflight(status, rules, importOK) ==
  /\ job # NoJob
  /\ LET p == Preflight(job, cookie[job.zync], dflt, status, rules, importOK)
     IN  /\ dflt' = p.headers
         /\ wire' = p.sent
         /\ res' = [call |-> "preflight", client |-> job.zync,
                    outcome |-> IF p.outcome = "Pass" THEN "ok" ELSE p.outcome]
         /\ pf' = [job_type |-> job.job_type, rules |-> rules,
                   importOK |-> importOK, done |-> TRUE, outcome |-> p.outcome,
                   msg |-> p.msg, evaluated |-> p.evaluated]
  /\ sub' = NoSubmit
  /\ UNCHANGED <<cookie, job>>

-----------------------------------------------------------------------------
(* Job.submit and the subclasses *)

\* json.dumps(x) raises TypeError on what JSON has no form for
JsonRaises(x) == x.t = "set"

RECURSIVE JsonPairs(_)
JsonPairs(kv) ==
  IF kv = <<>> THEN <<>>
  ELSE <<"\"", kv[1], "\"", ": ", "\"", kv[2], "\"">>
         \o (IF Len(kv) > 2 THEN <<", ">> ELSE <<>>)
         \o JsonPairs(SubSeq(kv, 3, Len(kv)))

RECURSIVE JsonItems(_)
JsonItems(items) ==
  IF items = <<>> THEN <<>>
  ELSE <<"\"", items[1], "\"">>
         \o (IF Len(items) > 1 THEN <<", ">> ELSE <<>>)
         \o JsonItems(Tail(items))

\* json.dumps(x): the JSON text of x, a byte string. The v of a dict is its
\* keys and values in turn, the v of a list its items, all of them strings
JsonDumps(x) ==
  CASE x.t = "dict"     -> S(<<"{">> \o JsonPairs(x.v) \o <<"}">>)
    [] x.t = "list"     -> S(<<"[">> \o JsonItems(x.v) \o <<"]">>)
    [] x.t = "NoneType" -> S(<<"null">>)
    [] x.t = "int"      -> S(x.v)
    [] OTHER            -> S(<<"\"">> \o x.v \o <<"\"">>)

\* Zync.DEFAULT_INSTANCE_TYPE, line 156
DEFAULT_INSTANCE_TYPE == S(<<"n1-standard-8">>)

Zero == I(<<"0">>)
One == I(<<"1">>)

\* lines 463-472
Defaults ==
  [k \in {"instance_type", "upload_only", "start_new_slots", "chunk_size",
          "distributed", "num_instances", "skip_check", "notify_complete",
          "job_subtype"} |->
     CASE k = "instance_type" -> DEFAULT_INSTANCE_TYPE
       [] k = "job_subtype" -> S(<<"render">>)
       [] k \in {"start_new_slots", "chunk_size", "num_instances"} -> One
       [] OTHER -> Zero]

\* lines 481-482 encoding every value of the dict
EncodeEveryValue(data) == [k \in DOMAIN data |-> JsonDumps(data[k])]

\* lines 481-482, with data a dict that has the key
EncodeSceneInfo(data) ==
  [k \in DOMAIN data |-> IF k = "scene_info" THEN JsonDumps(data[k]) ELSE data[k]]

\* Job.submit with the update of line 476 the other way round: the defaults
\* written over what was passed
JobDataDefaultsWin(params) ==
  LET data == Update(params, Defaults)
  IN  IF "scene_info" \in DOMAIN data THEN EncodeSceneInfo(data) ELSE data

\* Job.submit, lines 463-482: the dict handed to request()
JobData(params) ==
  LET data == Update(Defaults, params)
  IN  IF "scene_info" \in DOMAIN data THEN EncodeSceneInfo(data) ELSE data

\* the data of NukeJob.submit (lines 520-524), MayaJob.submit (644-647) and
\* ArnoldJob.submit (702-705); a plain Job passes params on as they are
FamilyData(family, file, write_name, params) ==
  CASE family = "nuke" ->
         Update([k \in {"job_type", "write_node", "file_path"} |->
                   CASE k = "job_type" -> S(<<"nuke">>)
                     [] k = "write_node" -> write_name
                     [] OTHER -> file], params)
    [] family \in {"maya", "arnold"} ->
         Update([k \in {"job_type", "file_path"} |->
                   IF k = "job_type" THEN S(<<family>>) ELSE file], params)
    [] OTHER -> params

\* the submit of the job j, lines 450-485 under the subclass's submit: the
\* service answers the POST with status and, when 200, the new job's id
Submit(j, ck, headers, file, write_name, params, status, new_id) ==
  LET merged == Update(Defaults, FamilyData(j.family, file, write_name, params))
      data == JobData(FamilyData(j.family, file, write_name, params))
      got == Request(ck, headers, <<"api", "job">>, "POST", data, status)
  IN  IF "scene_info" \in DOMAIN merged /\ JsonRaises(merged["scene_info"])
      THEN [outcome |-> "TypeError", headers |-> headers, sent |-> <<>>,
            data |-> EmptyDict, job_id |-> j.job_id]
      ELSE [outcome |-> got.outcome, headers |-> got.headers, sent |-> got.sent,
            data |-> data,
            job_id |-> IF got.outcome = "ok" THEN new_id ELSE j.job_id]

\* job.submit(...) called on the job made last
JobSubmit(file, write_name, params, status, new_id) ==
  /\ job # NoJob
  /\ LET s == Submit(job, cookie[job.zync], dflt, file, write_name, params,
                     status, new_id)
     IN  /\ dflt' = s.headers
         /\ wire' = s.sent
         /\ res' = [call |-> "submit", client |-> job.zync, outcome |-> s.outcome]
         /\ job' = [job EXCEPT !.job_id = s.job_id]
         /\ sub' = [done |-> TRUE, family |-> job.family, file |-> file,
                    write_name |-> write_name, params |-> params,
                    outcome |-> s.outcome]
  /\ pf' = NoPreflight
  /\ UNCHANGED cookie

\* JobClass(...), e.g. NukeJob(zync)
MakeJob(c, family) ==
  /\ job' = NewJob(c, family)
  /\ wire' = <<>>
  /\ res' = [call |-> "Job", client |-> c, outcome |-> "ok"]
  /\ pf' = NoPreflight
  /\ sub' = NoSubmit
  /\ UNCHANGED <<cookie, dflt>>

\* _check_id, lines 318-321: does it raise its ZyncError
CheckIdRaises(j) == j.id = None

\* details (lines 323-329), set_status (331-339) and retry (371-377) of the
\* job j. The URL of set_status is built from a format with two places and
\* one value, which raises TypeError
Control(j, ck, headers, method, data, status) ==
  LET url == IF method = "retry" THEN <<"api", "retry_errors">> \o j.id.v
             ELSE <<"api", "job">> \o j.id.v
      got == Request(ck, headers, url,
                     IF method = "details" THEN "GET" ELSE "POST", data, status)
  IN  IF CheckIdRaises(j)
      THEN [outcome |-> "ZyncError", headers |-> headers, sent |-> <<>>]
      ELSE IF method = "set_status"
      THEN [outcome |-> "TypeError", headers |-> headers, sent |-> <<>>]
      ELSE [outcome |-> got.outcome, headers |-> got.headers, sent |-> got.sent]

\* the status each control sets: cancel, resume, pause, unpause and restart,
\* lines 341-369
ControlStatuses == {"canceled", "resume", "paused", "unpaused", "queued"}

\* job.details(), job.retry() or one of the callers of set_status, called on
\* the job made last
JobControl(method, data, status) ==
  /\ job # NoJob
  /\ LET r == Control(job, cookie[job.zync], dflt, method, data, status)
     IN  /\ dflt' = r.headers
         /\ wire' = r.sent
         /\ res' = [call |-> method, client |-> job.zync, outcome |-> r.outcome]
  /\ pf' = NoPreflight
  /\ sub' = NoSubmit
  /\ UNCHANGED <<cookie, job>>

-----------------------------------------------------------------------------
(* Zync *)

\* job_type.lower(), line 251
Lower(job_type) ==
  CASE job_type = "Maya" -> "maya"
    [] job_type = "NUKE" -> "nuke"
    [] OTHER -> job_type

\* submit_job with preflight swallowed: the submission goes on whatever
\* preflight raised
ProceedsAnyway(p) == TRUE

\* line 268: what preflight raises leaves submit_job, so the lines after it
\* run only when preflight returned
Proceeds(p) == p.outcome = "Pass"

\* submit_job, lines 244-277. fileOK: can params.out of line 272 be opened
SubmitJob(c, job_type, file, write_name, params, pfStatus, rules, importOK, fileOK, status, new_id) ==
  LET family == Lower(job_type)
      new_job == NewJob(c, family)
      p == Preflight(new_job, cookie[c], dflt, pfStatus, rules, importOK)
      s == Submit(new_job, cookie[c], p.headers, file, write_name, params,
                  status, new_id)
      ran == [job_type |-> family, rules |-> rules, importOK |-> importOK,
              done |-> TRUE, outcome |-> p.outcome, msg |-> p.msg,
              evaluated |-> p.evaluated]
  IN  /\ UNCHANGED cookie
      /\ IF family \notin {"nuke", "maya", "arnold"}
         THEN /\ res' = [call |-> "submit_job", client |-> c, outcome |-> "ZyncError"]
              /\ wire' = <<>>
              /\ pf' = NoPreflight
              /\ sub' = NoSubmit
              /\ UNCHANGED <<dflt, job>>
         ELSE IF ~Proceeds(p)
         THEN /\ res' = [call |-> "submit_job", client |-> c, outcome |-> p.outcome]
              /\ wire' = p.sent
              /\ dflt' = p.headers
              /\ pf' = ran
              /\ sub' = NoSubmit
              /\ UNCHANGED job
         ELSE IF ~fileOK
         THEN /\ res' = [call |-> "submit_job", client |-> c, outcome |-> "IOError"]
              /\ wire' = p.sent
              /\ dflt' = p.headers
              /\ pf' = ran
              /\ sub' = NoSubmit
              /\ UNCHANGED job
         ELSE /\ res' = [call |-> "submit_job", client |-> c, outcome |-> s.outcome]
              /\ wire' = p.sent \o s.sent
              /\ dflt' = s.headers
              /\ pf' = ran
              /\ sub' = [done |-> TRUE, family |-> family, file |-> file,
                         write_name |-> write_name, params |-> params,
                         outcome |-> s.outcome]
              /\ job' = IF s.outcome = "ok"
                        THEN [new_job EXCEPT !.job_id = s.job_id] ELSE job

\* up(), lines 60-72, and __auth, lines 85-103, as login runs them, lines
\* 105-114: reach is what the GET of the site gives (a status, or no server
\* found; the site is up on a status that starts with 2 or 3), status and
\* set_cookie what the POST to /api/validate gives
Login(c, reach, status, set_cookie) ==
  LET ping == Sent("up", <<>>, "GET", EmptyDict, EmptyDict, NoHeaders)
      auth == Sent("auth", <<"api", "validate">>, "POST", EmptyDict,
                   [k \in {"script_name", "token", "user", "pass"} |-> S(<<k>>)],
                   [k \in {"Content-Type"} |-> FormType])
  IN  /\ IF reach \notin {"200", "302"}
         THEN /\ res' = [call |-> "login", client |-> c, outcome |-> "ZyncConnectionError"]
              /\ wire' = <<ping>>
              /\ UNCHANGED cookie
         ELSE IF status # "200"
         THEN /\ res' = [call |-> "login", client |-> c, outcome |-> "ZyncAuthenticationError"]
              /\ wire' = <<ping, auth>>
              /\ UNCHANGED cookie
         ELSE /\ res' = [call |-> "login", client |-> c, outcome |-> "ok"]
              /\ wire' = <<ping, auth>>
              /\ cookie' = [cookie EXCEPT ![c] = set_cookie]
      /\ pf' = NoPreflight
      /\ sub' = NoSubmit
      /\ UNCHANGED <<dflt, job>>

\* the dicts a caller of request() can pass as headers
CallerHeaders ==
  { NoHeaders,
    [k \in {"Cookie", "Content-Type"} |->
       IF k = "Cookie" THEN "sid=old" ELSE "application/json"] }

Endpoints == {<<"api", "config">>, <<"api", "jobs">>}

\* request(url, operation, data) with the default headers: get_config (lines
\* 158-172) and get_jobs (220-228) among the callers
Call(c, url, operation, data, status) ==
  LET r == Request(cookie[c], dflt, url, operation, data, status)
  IN  /\ dflt' = r.headers
      /\ wire' = r.sent
      /\ res' = [call |-> "request", client |-> c, outcome |-> r.outcome]
      /\ pf' = NoPreflight
      /\ sub' = NoSubmit
      /\ UNCHANGED <<cookie, job>>

\* request(url, operation, data, headers=h), h a dict of the caller
CallWith(c, url, operation, data, h, status) ==
  LET r == Request(cookie[c], h, url, operation, data, status)
  IN  /\ wire' = r.sent
      /\ res' = [call |-> "request_with_headers", client |-> c,
                 outcome |-> r.outcome]
      /\ pf' = NoPreflight
      /\ sub' = NoSubmit
      /\ UNCHANGED <<cookie, dflt, job>>

-----------------------------------------------------------------------------
(* The clients in use *)

\* the checks of the site, as the service sends them for a job type
SiteRuleLists ==
  { <<>>,
    <<[api_call |-> "two", operation_type |-> "equal",
       condition |-> <<U(<<"x">>)>>, error |-> <<"found ", MatchToken>>]>>,
    <<[api_call |-> "boom", operation_type |-> "equal",
       condition |-> <<U(<<"x">>)>>, error |-> <<"found ", MatchToken>>],
      [api_call |-> "num", operation_type |-> "equal",
       condition |-> <<U(<<"x">>)>>, error |-> <<"found ", MatchToken>>]>> }

\* what the callers pass as params
SiteParams ==
  { EmptyDict,
    [k \in {"chunk_size", "scene_info"} |->
       IF k = "chunk_size" THEN I(<<"5">>)
       ELSE [t |-> "dict", v |-> <<"extension", "exr">>]] }

ScenePath == S(<<"/shots/a.scene">>)
WriteName == S(<<"Write1">>)

\* the id the service gives a new job
NewId == I(<<"41">>)

\* Zync.__init__, lines 140-156, has run for every client: each holds the
\* cookie __auth gave it, and the GETs of lines 151-155 left that of the
\* client made last in the default headers of request()
Init ==
  /\ cookie = [c \in Clients |-> "sid=A"]
  /\ dflt = [k \in {"Cookie"} |-> "sid=A"]
  /\ job = NoJob
  /\ wire = <<>>
  /\ res = [call |-> "__init__", client |-> "z1", outcome |-> "ok"]
  /\ pf = NoPreflight
  /\ sub = NoSubmit

\* what the service answers a login with: the site is not reached, the
\* validation is refused, or it gives a cookie
LoginReplies ==
  {[reach |-> "unreachable", status |-> "200", set_cookie |-> ""],
   [reach |-> "200", status |-> "500", set_cookie |-> ""]}
    \cup {[reach |-> "200", status |-> "200", set_cookie |-> ck] : ck \in Cookies}

\* the runs of job.preflight(): the list does not arrive, or it does
PreflightRuns ==
  {[status |-> "500", rules |-> <<>>, importOK |-> TRUE]}
    \cup {[status |-> "200", rules |-> rules, importOK |-> ok] :
            rules \in SiteRuleLists, ok \in BOOLEAN}

\* the calls of submit_job and what they meet
SubmitCalls ==
  LET call(jt, pfStatus, rules, ok, fileOK, status, params) ==
        [job_type |-> jt, pfStatus |-> pfStatus, rules |-> rules,
         importOK |-> ok, fileOK |-> fileOK, status |-> status,
         params |-> params]
  IN  {call("houdini", "200", <<>>, TRUE, TRUE, "200", EmptyDict),
       call("Maya", "500", <<>>, TRUE, TRUE, "200", EmptyDict),
       call("nuke", "200", <<>>, TRUE, FALSE, "200", EmptyDict),
       call("nuke", "200", <<>>, TRUE, TRUE, "500", EmptyDict)}
        \cup {call("Maya", "200", rules, ok, TRUE, "200", EmptyDict) :
                rules \in SiteRuleLists, ok \in BOOLEAN}
        \cup {call("arnold", "200", rules, FALSE, TRUE, "200", EmptyDict) :
                rules \in SiteRuleLists}
        \cup {call(jt, "200", <<>>, TRUE, TRUE, "200", params) :
                jt \in {"Maya", "nuke"}, params \in SiteParams}

Next ==
  \/ \E c \in Clients, r \in LoginReplies :
       Login(c, r.reach, r.status, r.set_cookie)
  \/ \E c \in Clients, url \in Endpoints, status \in Statuses :
       Call(c, url, "GET",
            IF url = <<"api", "jobs">> THEN [k \in {"max"} |-> I(<<"100">>)]
            ELSE EmptyDict, status)
  \/ \E c \in Clients, operation \in {"GET", "POST"}, h \in CallerHeaders :
       CallWith(c, <<"api", "config">>, operation, EmptyDict, h, "200")
  \/ \E c \in Clients, family \in {"job", "nuke", "maya", "arnold"} :
       MakeJob(c, family)
  \/ \E r \in PreflightRuns : JobPreflight(r.status, r.rules, r.importOK)
  \/ \E params \in SiteParams, status \in Statuses :
       JobSubmit(ScenePath, WriteName, params, status, NewId)
  \/ \E status \in Statuses :
       \/ JobControl("details", EmptyDict, status)
       \/ JobControl("retry", EmptyDict, status)
  \/ \E st \in ControlStatuses :
       JobControl("set_status", [k \in {"status"} |-> S(<<st>>)], "200")
  \/ \E c \in Clients, s \in SubmitCalls :
       SubmitJob(c, s.job_type, ScenePath, WriteName, s.params, s.pfStatus,
                 s.rules, s.importOK, s.fileOK, s.status, NewId)

Spec == Init /\ [][Next]_vars

-----------------------------------------------------------------------------
(* The preflight engine on its own: every list of checks the service can  *)
(* send, handed once to the preflight of a job                            *)

PreflightJobTypes == {"maya", "nuke", "arnold"}

InitPreflight ==
  /\ cookie = [c \in Clients |-> "sid=A"]
  /\ dflt = [k \in {"Cookie"} |-> "sid=A"]
  /\ wire = <<>>
  /\ res = [call |-> "__init__", client |-> "z1", outcome |-> "ok"]
  /\ sub = NoSubmit
  /\ \E jt \in PreflightJobTypes, rules \in RuleLists, ok \in BOOLEAN :
       /\ job = NewJob("z1", jt)
       /\ pf = [NoPreflight EXCEPT !.job_type = jt, !.rules = rules,
                                   !.importOK = ok]

NextPreflight == ~pf.done /\ JobPreflight("200", pf.rules, pf.importOK)

PreflightSpec == InitPreflight /\ [][NextPreflight]_vars

-----------------------------------------------------------------------------
(* Job.submit on its own: every dict of params a caller can pass, handed   *)
(* once to the submit of a job of every class                             *)

SceneInfos ==
  { [t |-> "dict", v |-> <<>>],
    [t |-> "dict", v |-> <<"extension", "exr", "version", "2014">>],
    [t |-> "list", v |-> <<"a.ma", "b.ma">>],
    [t |-> "set", v |-> <<"a.ma">>],
    U(<<"x">>),
    None }

\* what a caller can pass under a key
ParamValues(k) ==
  CASE k = "chunk_size" -> {I(<<"5">>)}
    [] k = "instance_type" -> {S(<<"n1-highmem-16">>)}
    [] k = "job_type" -> {S(<<"custom">>)}
    [] k = "frange" -> {S(<<"1-10">>)}
    [] OTHER -> SceneInfos

ParamKeys == {"chunk_size", "instance_type", "job_type", "frange", "scene_info"}

ParamDicts ==
  UNION {{d \in [keys -> UNION {ParamValues(k) : k \in keys}] :
            \A k \in keys : d[k] \in ParamValues(k)} : keys \in SUBSET ParamKeys}

InitSubmit ==
  /\ cookie = [c \in Clients |-> "sid=A"]
  /\ dflt = [k \in {"Cookie"} |-> "sid=A"]
  /\ wire = <<>>
  /\ res = [call |-> "__init__", client |-> "z1", outcome |-> "ok"]
  /\ pf = NoPreflight
  /\ \E family \in {"job", "nuke", "maya", "arnold"}, params \in ParamDicts :
       /\ job = NewJob("z1", family)
       /\ sub = [NoSubmit EXCEPT !.family = family, !.file = ScenePath,
                                 !.write_name = WriteName, !.params = params]

NextSubmit ==
  ~sub.done /\ JobSubmit(sub.file, sub.write_name, sub.params, "200", NewId)

SubmitSpec == InitSubmit /\ [][NextSubmit]_vars

-----------------------------------------------------------------------------
(* What the checks are meant to do, stated on the list of checks itself *)

Range(seq) == {seq[i] : i \in DOMAIN seq}

RemoveAt(seq, i) == SubSeq(seq, 1, i - 1) \o SubSeq(seq, i + 1, Len(seq))

\* the values eval() gave for the check, as a sequence
Evaluated(rule) == AsList(Eval(rule.api_call))

IsMember(rule, x) == PyIn(x, rule.condition)
IsAbsent(rule, x) == ~PyIn(x, rule.condition)

\* the values of a check's result that count as matches, in the order of the
\* result: none when eval() raises or the operation type is not a known one
Matching(rule) ==
  IF Eval(rule.api_call).raised THEN <<>>
  ELSE IF rule.operation_type = "equal"
       THEN SelectSeq(Evaluated(rule), LAMBDA x : IsMember(rule, x))
  ELSE IF rule.operation_type = "not_equal"
       THEN SelectSeq(Evaluated(rule), LAMBDA x : IsAbsent(rule, x))
  ELSE <<>>

\* the values, comma-joined
RECURSIVE CommaJoined(_)
CommaJoined(values) ==
  IF values = <<>> THEN <<>>
  ELSE IF Len(values) = 1 THEN values[1].v
  ELSE values[1].v \o <<", ">> \o CommaJoined(Tail(values))

\* the error text of the check with every placeholder replaced by the values
RECURSIVE Filled(_, _)
Filled(text, values) ==
  IF text = <<>> THEN <<>>
  ELSE IF Head(text) = MatchToken
       THEN CommaJoined(values) \o Filled(Tail(text), values)
       ELSE <<Head(text)>> \o Filled(Tail(text), values)

\* the preflight ran its checks: the list arrived and the application's
\* module, where the job type needs one, was there
ChecksRan ==
  /\ pf.done
  /\ pf.outcome \in {"Pass", "ZyncPreflightError"}
  /\ ~(pf.job_type \in {"maya", "nuke"} /\ ~pf.importOK)

\* the first check of the last run that has a match, 0 if none has
FirstMatching ==
  IF \E i \in DOMAIN pf.rules : Matching(pf.rules[i]) # <<>>
  THEN CHOOSE i \in DOMAIN pf.rules :
         /\ Matching(pf.rules[i]) # <<>>
         /\ \A j \in 1..(i - 1) : Matching(pf.rules[j]) = <<>>
  ELSE 0

\* C1: when a check records a match, preflight raises ZyncPreflightError with
\* the text of the first such check alone, and no later check's api_call is
\* evaluated.
C1_ShortCircuit ==
  (ChecksRan /\ FirstMatching > 0) =>
    /\ pf.outcome = "ZyncPreflightError"
    /\ res.outcome = "ZyncPreflightError"
    /\ pf.msg = Filled(pf.rules[FirstMatching].error,
                       Matching(pf.rules[FirstMatching]))
    /\ pf.evaluated = [i \in 1..FirstMatching |-> i]

\* C3: an "equal" check that preflight reaches, whose result has a value in
\* the condition, makes preflight fail with the check's error text, the
\* placeholder replaced by the values in the condition, comma-joined in the
\* order of the result.
C3_EqualFails ==
  ChecksRan =>
    \A i \in Range(pf.evaluated) :
      LET rule == pf.rules[i]
      IN  (rule.operation_type = "equal" /\ Matching(rule) # <<>>) =>
            /\ pf.outcome = "ZyncPreflightError"
            /\ pf.msg = Filled(rule.error, Matching(rule))

\* C4: a "not_equal" check that preflight reaches, whose result has a value
\* not in the condition, makes preflight fail, the matches being exactly the
\* values not in the condition.
C4_NotEqualFails ==
  ChecksRan =>
    \A i \in Range(pf.evaluated) :
      LET rule == pf.rules[i]
      IN  (rule.operation_type = "not_equal" /\ Matching(rule) # <<>>) =>
            /\ pf.outcome = "ZyncPreflightError"
            /\ pf.msg = Filled(rule.error, Matching(rule))


\* the list arrived: preflight ended by returning or by its own error
Fetched == pf.done /\ pf.outcome \in {"Pass", "ZyncPreflightError"}

\* the last run, had the i-th check not been in the list
Without(i) == RunChecks(pf.job_type, RemoveAt(pf.rules, i), pf.importOK)

\* the checks evaluated in the last run other than the i-th, numbered as in
\* the list without the i-th
EvaluatedBut(i) ==
  LET others == SelectSeq(pf.evaluated, LAMBDA k : k # i)
  IN  [n \in DOMAIN others |-> IF others[n] > i THEN others[n] - 1 ELSE others[n]]

C5_NoMatchPasses ==
  (Fetched /\ \A i \in DOMAIN pf.rules : Matching(pf.rules[i]) = <<>>) =>
    /\ pf.outcome = "Pass"
    /\ res.outcome = "ok"

C5_Witness ==
  /\ Fetched
  /\ Len(pf.rules) = 2
  /\ \A i \in DOMAIN pf.rules :
       /\ Matching(pf.rules[i]) = <<>>
       /\ ~Eval(pf.rules[i].api_call).raised
       /\ pf.rules[i].operation_type \in {"equal", "not_equal"}
  /\ pf.evaluated = <<1, 2>>
  /\ pf.outcome = "Pass"

\* C10: a check whose operation type is neither "equal" nor "not_equal" never
\* makes preflight fail or raise: preflight ends as it does on the list
\* without that check, and evaluates the same other checks; only the check's
\* own api_call is evaluated besides.
C10_UnknownOperationInert ==
  pf.done =>
    \A i \in DOMAIN pf.rules :
      pf.rules[i].operation_type \notin {"equal", "not_equal"} =>
        /\ res.outcome \in {"ok", "ZyncPreflightError"}
        /\ pf.outcome = Without(i).outcome
        /\ pf.msg = Without(i).msg
        /\ EvaluatedBut(i) = Without(i).evaluated
        /\ (i \in Range(pf.evaluated)) => CheckOne(pf.rules[i]).matches = <<>>

C10_Witness ==
  /\ pf.done
  /\ Len(pf.rules) = 2
  /\ pf.rules[1].operation_type = "regex"
  /\ pf.rules[1].api_call = "two"
  /\ pf.rules[1].condition = <<U(<<"x">>)>>
  /\ pf.evaluated = <<1, 2>>
  /\ pf.outcome = "ZyncPreflightError"


-----------------------------------------------------------------------------
(* Submission *)

IsJobCreation(request) == request.op = "POST" /\ request.url = <<"api", "job">>

\* C6: in submit_job, a preflight that fails ends the call with its
\* ZyncPreflightError before anything is sent for the submission: the POST to
\* /api/job is on the wire only after preflight returned.
C6_PreflightGatesSubmission ==
  res.call = "submit_job" =>
    /\ \A k \in DOMAIN wire :
         IsJobCreation(wire[k]) =>
           /\ pf.done /\ pf.outcome = "Pass"
           /\ k = 2 /\ wire[1].url = <<"api", "preflight", pf.job_type>>
    /\ (pf.done /\ pf.outcome = "ZyncPreflightError") =>
         /\ res.outcome = "ZyncPreflightError"
         /\ Len(wire) = 1 /\ ~IsJobCreation(wire[1])
         /\ ~sub.done

C6_Witness ==
  /\ res.call = "submit_job"
  /\ pf.done /\ pf.outcome = "ZyncPreflightError"
  /\ res.outcome = "ZyncPreflightError"
  /\ Len(wire) = 1

\* the dict the last submission handed to request()
Transmitted == wire[Len(wire)].body

\* the dict of the last submission after the update of line 476
Merged ==
  Update(Defaults, FamilyData(sub.family, sub.file, sub.write_name, sub.params))

\* C7 as stated: the transmitted dict has every key the caller passed with the
\* caller's value, and every default the caller did not pass with its default.
C7_CallerValuesTransmitted ==
  (sub.done /\ wire # <<>>) =>
    /\ \A k \in DOMAIN sub.params :
         k \in DOMAIN Transmitted /\ Transmitted[k] = sub.params[k]
    /\ \A k \in (DOMAIN Defaults) \ (DOMAIN sub.params) :
         k \in DOMAIN Transmitted /\ Transmitted[k] = Defaults[k]

\* C7, amended: the transmitted dict has every key the caller passed, with
\* the caller's value for every key but scene_info and the JSON text of the
\* caller's value for scene_info, and every default the caller did not pass
\* with its default value.
C7_Merge ==
  (sub.done /\ wire # <<>>) =>
    /\ \A k \in DOMAIN sub.params :
         /\ k \in DOMAIN Transmitted
         /\ k # "scene_info" => Transmitted[k] = sub.params[k]
         /\ k = "scene_info" => Transmitted[k] = JsonDumps(sub.params[k])
    /\ \A k \in (DOMAIN Defaults) \ (DOMAIN sub.params) :
         k \in DOMAIN Transmitted /\ Transmitted[k] = Defaults[k]
    /\ "chunk_size" \notin DOMAIN sub.params => Transmitted["chunk_size"] = One
    /\ "num_instances" \notin DOMAIN sub.params =>
         Transmitted["num_instances"] = One
    /\ "job_subtype" \notin DOMAIN sub.params =>
         Transmitted["job_subtype"] = S(<<"render">>)
    /\ "instance_type" \notin DOMAIN sub.params =>
         Transmitted["instance_type"] = DEFAULT_INSTANCE_TYPE

C7_Witness ==
  /\ sub.done /\ wire # <<>>
  /\ sub.family = "nuke"
  /\ DOMAIN sub.params = {"chunk_size", "job_type"}
  /\ Transmitted["chunk_size"] = I(<<"5">>)
  /\ Transmitted["job_type"] = S(<<"custom">>)
  /\ Transmitted["num_instances"] = One

\* C8: with scene_info in the merged dict, the transmitted dict has the JSON
\* text of its value under scene_info and every other key as merged; without
\* it the transmitted dict is the merged one.
C8_SceneInfoEncoded ==
  (sub.done /\ wire # <<>>) =>
    IF "scene_info" \in DOMAIN Merged
    THEN /\ DOMAIN Transmitted = DOMAIN Merged
         /\ Transmitted["scene_info"] = JsonDumps(Merged["scene_info"])
         /\ Transmitted["scene_info"].t = "str"
         /\ \A k \in (DOMAIN Merged) \ {"scene_info"} : Transmitted[k] = Merged[k]
    ELSE Transmitted = Merged

C8_Witness ==
  /\ sub.done /\ wire # <<>>
  /\ "scene_info" \in DOMAIN sub.params
  /\ sub.params["scene_info"] =
       [t |-> "dict", v |-> <<"extension", "exr", "version", "2014">>]
  /\ Transmitted["scene_info"] =
       S(<<"{", "\"", "extension", "\"", ": ", "\"", "exr", "\"", ", ",
           "\"", "version", "\"", ": ", "\"", "2014", "\"", "}">>)
  /\ "frange" \in DOMAIN sub.params

-----------------------------------------------------------------------------
(* The session cookie *)

\* C9: every request made through request() carries the cookie its client
\* holds at the time, the one of its last login; a client without a cookie
\* sends nothing through request(), which raises ZyncAuthenticationError.
C9_CookieOnEveryRequest ==
  /\ \A k \in DOMAIN wire :
       wire[k].via = "request" =>
         /\ "Cookie" \in DOMAIN wire[k].headers
         /\ wire[k].headers["Cookie"] = cookie[res.client]
  /\ cookie[res.client] = "" =>
       /\ \A k \in DOMAIN wire : wire[k].via # "request"
       /\ res.call \in {"request", "request_with_headers"} =>
            res.outcome = "ZyncAuthenticationError"

C9_Witness ==
  /\ res.call = "request"
  /\ Len(wire) = 1
  /\ wire[1].via = "request"
  /\ wire[1].headers["Cookie"] = "sid=B"
  /\ \E c \in Clients : cookie[c] = "sid=A"

-----------------------------------------------------------------------------
(* The job after its submission *)

Controls == {"details", "set_status", "retry"}

\* C11: once a submission has returned, the job's id is the id the service
\* gave, so details, retry and the controls that set a status pass the check
\* of the id and send their request for that job.
C11_SubmittedJobControllable ==
  /\ (res.call \in {"submit", "submit_job"} /\ res.outcome = "ok") =>
       /\ job.id # None
       /\ job.id = NewId
  /\ (res.call \in Controls /\ job.job_id # None) =>
       /\ Len(wire) = 1
       /\ wire[1].via = "request"
       /\ wire[1].url[Len(wire[1].url)] = NewId.v[1]

-----------------------------------------------------------------------------
(* The headers of a request *)

\* C12: a request made without a headers argument sends headers that depend
\* on its operation and its client's cookie alone: a GET the Cookie only,
\* any other operation the Cookie and the form Content-Type, whatever was
\* requested before.
C12_HeadersIndependentOfHistory ==
  res.call # "request_with_headers" =>
    \A k \in DOMAIN wire :
      wire[k].via = "request" =>
        wire[k].headers =
          IF wire[k].op = "GET"
          THEN [h \in {"Cookie"} |-> cookie[res.client]]
          ELSE [h \in {"Cookie", "Content-Type"} |->
                  IF h = "Cookie" THEN cookie[res.client] ELSE FormType]

====
